---- MODULE Spec2Model ----
(***************************************************************************)
(* Model of tolino_uploader.py: the TolinoUploader credential cache (key   *)
(* file, encrypted credentials file, in-memory record and key) and the     *)
(* browser-driven upload_book call chain.                                  *)
(*                                                                         *)
(* Bytes objects are records [tag, id]; the credentials file is a record   *)
(* [tag, key, text]; JSON text is a sequence of tokens; Python values held *)
(* in _credentials are records [kind, username, password].                 *)
(***************************************************************************)
EXTENDS Integers, Sequences, FiniteSets, TLC

\* Number of distinct keys Fernet.generate_key() hands out in a run.
NumKeys == 2

\* Arguments of save_credentials ("" is the empty string).
Usernames == {"", "reader"}
Passwords == {"", "Secr3t"}

\* dict.get(name) on a dict without that name (Python None).
Missing == "<None>"

(***************************************************************************)
(* Bytes values: the key file's content and the in-memory key.             *)
(***************************************************************************)
NoneKey == [tag |-> "none", id |-> 0]
AbsentFile == [tag |-> "absent", id |-> 0]
EmptyBytes == [tag |-> "empty", id |-> 0]
GarbageBytes == [tag |-> "garbage", id |-> 0]
KeyBytes(i) == [tag |-> "key", id |-> i]

\* Python truthiness of Optional[bytes]: None and b'' are falsy.
Truthy(k) == k.tag \notin {"none", "empty"}

\* Fernet(key) accepts only url-safe base64 of 32 bytes; anything else raises.
FernetAccepts(k) == k.tag = "key"

(***************************************************************************)
(* The credentials file.                                                   *)
(***************************************************************************)
NoCredFile == [tag |-> "absent", key |-> 0, text |-> <<>>]
EmptyCredFile == [tag |-> "empty", key |-> 0, text |-> <<>>]

\* Fernet(key).encrypt(text): an authenticated token bound to the key.
encrypt(k, text) == [tag |-> "token", key |-> k.id, text |-> text]

\* Fernet(key).decrypt(data): the plaintext of an intact token made under the
\* same key; InvalidToken (ok = FALSE) for everything else.
decrypt(k, data) ==
    IF data.tag = "token" /\ data.key = k.id
    THEN [ok |-> TRUE, text |-> data.text]
    ELSE [ok |-> FALSE, text |-> <<>>]

(***************************************************************************)
(* Python values and JSON.                                                 *)
(***************************************************************************)
EmptyDict == [kind |-> "dict", username |-> Missing, password |-> Missing]
Dict(u, p) == [kind |-> "dict", username |-> u, password |-> p]
PyList == [kind |-> "list", username |-> Missing, password |-> Missing]
PyNone == [kind |-> "none", username |-> Missing, password |-> Missing]

\* json.dumps of a dict: '{' then name, value for each present name, then '}'.
json_dumps(c) ==
    <<"{">>
    \o (IF c.username # Missing THEN <<"username", c.username>> ELSE <<>>)
    \o (IF c.password # Missing THEN <<"password", c.password>> ELSE <<>>)
    \o <<"}">>

\* The value of name among the members (name, value, name, value, ...); the
\* last occurrence wins, Missing when there is none.
RECURSIVE Member(_, _)
Member(members, name) ==
    IF Len(members) < 2 THEN Missing
    ELSE LET rest == Member(SubSeq(members, 3, Len(members)), name)
         IN IF rest # Missing THEN rest
            ELSE IF members[1] = name THEN members[2] ELSE Missing

\* json.loads: ok = FALSE stands for JSONDecodeError.
json_loads(text) ==
    IF text = <<"null">> THEN [ok |-> TRUE, value |-> PyNone]
    ELSE IF text = <<"[", "]">> THEN [ok |-> TRUE, value |-> PyList]
    ELSE IF /\ Len(text) >= 2
            /\ text[1] = "{"
            /\ text[Len(text)] = "}"
            /\ Len(text) % 2 = 0
         THEN LET members == SubSeq(text, 2, Len(text) - 1)
              IN [ok |-> TRUE,
                  value |-> Dict(Member(members, "username"),
                                 Member(members, "password"))]
         ELSE [ok |-> FALSE, value |-> EmptyDict]

(***************************************************************************)
(* TolinoUploader: the credential cache.                                   *)
(***************************************************************************)
KeyFaults == {"ok", "generate_error", "open_error", "write_error"}
CredFaults == {"ok", "open_error", "write_error"}

\* _load_encryption_key.  fault is the outcome of the I/O of this call, nk
\* the key generate_key() would return.  An exception leaves whatever was
\* assigned before it.
_load_encryption_key(key, kfile, fault, nk) ==
    IF kfile.tag # "absent"
    THEN IF fault = "ok"
         THEN [key |-> kfile, file |-> kfile]
         ELSE [key |-> key, file |-> kfile]
    ELSE CASE fault = "ok" -> [key |-> nk, file |-> nk]
           [] fault = "generate_error" -> [key |-> key, file |-> kfile]
           [] fault = "open_error" -> [key |-> nk, file |-> kfile]
           [] fault = "write_error" -> [key |-> nk, file |-> EmptyBytes]

\* _load_credentials.  Returns the new _credentials.
_load_credentials(creds, key, cfile, fault) ==
    IF cfile.tag # "absent" /\ Truthy(key)
    THEN IF fault # "ok" \/ ~FernetAccepts(key) THEN EmptyDict
         ELSE LET plain == decrypt(key, cfile)
                  parsed == json_loads(plain.text)
              IN IF plain.ok /\ parsed.ok THEN parsed.value ELSE EmptyDict
    ELSE creds

\* __init__: empty record, no key, then the two loads.
__init__(kfile, cfile, kf, cf, nk) ==
    LET k == _load_encryption_key(NoneKey, kfile, kf, nk)
    IN [creds |-> _load_credentials(EmptyDict, k.key, cfile, cf),
        key |-> k.key, kfile |-> k.file, cfile |-> cfile]

\* save_credentials that writes the file but never assigns _credentials.
save_without_cache_update(creds, key, kfile, cfile, u, p, kf, cf, nk) ==
    LET k == IF ~Truthy(key) THEN _load_encryption_key(key, kfile, kf, nk)
             ELSE [key |-> key, file |-> kfile]
        c == Dict(u, p)
    IN IF ~FernetAccepts(k.key)
       THEN [creds |-> creds, key |-> k.key, kfile |-> k.file,
             cfile |-> cfile, ret |-> "False"]
       ELSE CASE cf = "ok" ->
                 [creds |-> creds, key |-> k.key, kfile |-> k.file,
                  cfile |-> encrypt(k.key, json_dumps(c)), ret |-> "True"]
              [] cf = "open_error" ->
                 [creds |-> creds, key |-> k.key, kfile |-> k.file,
                  cfile |-> cfile, ret |-> "False"]
              [] cf = "write_error" ->
                 [creds |-> creds, key |-> k.key, kfile |-> k.file,
                  cfile |-> EmptyCredFile, ret |-> "False"]
\* save_credentials that assigns _credentials only after the write succeeded.
save_write_first(creds, key, kfile, cfile, u, p, kf, cf, nk) ==
    LET k == IF ~Truthy(key) THEN _load_encryption_key(key, kfile, kf, nk)
             ELSE [key |-> key, file |-> kfile]
    IN IF ~FernetAccepts(k.key) \/ cf # "ok"
       THEN [creds |-> creds, key |-> k.key, kfile |-> k.file,
             cfile |-> IF FernetAccepts(k.key) /\ cf = "write_error"
                       THEN EmptyCredFile ELSE cfile,
             ret |-> "False"]
       ELSE [creds |-> Dict(u, p), key |-> k.key, kfile |-> k.file,
             cfile |-> encrypt(k.key, json_dumps(Dict(u, p))), ret |-> "True"]
\* save_credentials whose write is not covered by the try block's False.
save_ignore_write_error(creds, key, kfile, cfile, u, p, kf, cf, nk) ==
    LET k == IF ~Truthy(key) THEN _load_encryption_key(key, kfile, kf, nk)
             ELSE [key |-> key, file |-> kfile]
        c == Dict(u, p)
    IN IF ~FernetAccepts(k.key)
       THEN [creds |-> c, key |-> k.key, kfile |-> k.file, cfile |-> cfile,
             ret |-> "False"]
       ELSE CASE cf = "ok" ->
                 [creds |-> c, key |-> k.key, kfile |-> k.file,
                  cfile |-> encrypt(k.key, json_dumps(c)), ret |-> "True"]
              [] cf = "open_error" ->
                 [creds |-> c, key |-> k.key, kfile |-> k.file,
                  cfile |-> cfile, ret |-> "True"]
              [] cf = "write_error" ->
                 [creds |-> c, key |-> k.key, kfile |-> k.file,
                  cfile |-> EmptyCredFile, ret |-> "True"]
\* save_credentials: reload the key when it is falsy, assign the record, then
\* Fernet(key), encrypt, open and write; any exception returns False.
save_credentials(creds, key, kfile, cfile, u, p, kf, cf, nk) ==
    LET k == IF ~Truthy(key) THEN _load_encryption_key(key, kfile, kf, nk)
             ELSE [key |-> key, file |-> kfile]
        c == Dict(u, p)
    IN IF ~FernetAccepts(k.key)
       THEN [creds |-> c, key |-> k.key, kfile |-> k.file, cfile |-> cfile,
             ret |-> "False"]
       ELSE CASE cf = "ok" ->
                 [creds |-> c, key |-> k.key, kfile |-> k.file,
                  cfile |-> encrypt(k.key, json_dumps(c)), ret |-> "True"]
              [] cf = "open_error" ->
                 [creds |-> c, key |-> k.key, kfile |-> k.file,
                  cfile |-> cfile, ret |-> "False"]
              [] cf = "write_error" ->
                 [creds |-> c, key |-> k.key, kfile |-> k.file,
                  cfile |-> EmptyCredFile, ret |-> "False"]

\* has_credentials that looks at the username only.
has_credentials_username_only(c) ==
    IF c.kind # "dict" THEN "raise"
    ELSE IF c.username \notin {Missing, ""} THEN "True" ELSE "False"
\* has_credentials: bool(c.get("username") and c.get("password")); a value
\* without .get (a list, None) raises AttributeError.
has_credentials(c) ==
    IF c.kind # "dict" THEN "raise"
    ELSE IF c.username \notin {Missing, ""} /\ c.password \notin {Missing, ""}
         THEN "True" ELSE "False"

(***************************************************************************)
(* TolinoUploader: the browser workflow.  Every awaited browser call either *)
(* returns or raises; failAt = 0 means that no call of the group raises,   *)
(* failAt = i that the i-th call raises.                                   *)
(***************************************************************************)
InitSteps == <<"start", "launch", "new_context", "new_page">>
LoginSteps == <<"goto", "wait_email", "fill_username", "fill_password",
                "click_submit", "wait_library">>
ButtonSteps == <<"wait_upload_button", "click_upload_button">>
MenuSteps == <<"wait_menu", "click_menu", "wait_upload_option",
               "click_upload_option">>
ChooserSteps == <<"expect_file_chooser", "set_files", "wait_success">>

\* The calls made by a group whose failAt-th call raises.
Calls(steps, failAt) ==
    IF failAt = 0 THEN steps ELSE SubSeq(steps, 1, failAt)

Position(steps, name) == CHOOSE i \in 1..Len(steps) : steps[i] = name

\* _init_browser: _browser is assigned once launch returned, _page once
\* new_page returned; any exception is re-raised.
_init_browser(browser, page, failAt) ==
    [browser |-> IF failAt = 0 \/ failAt > Position(InitSteps, "launch")
                 THEN TRUE ELSE browser,
     page |-> IF failAt = 0 THEN TRUE ELSE page,
     raised |-> failAt # 0,
     log |-> Calls(InitSteps, failAt)]

\* _close_browser: closes only a launched browser; an exception of close()
\* is swallowed and leaves the fields set.
_close_browser(browser, page, closeOk) ==
    IF browser
    THEN [browser |-> ~closeOk, page |-> IF closeOk THEN FALSE ELSE page,
          log |-> <<"close">>]
    ELSE [browser |-> browser, page |-> page, log |-> <<>>]

\* What page.fill was given by a login whose failAt-th call raises.
Typed(creds, failAt) ==
    (IF failAt = 0 \/ failAt >= Position(LoginSteps, "fill_username")
     THEN <<creds.username>> ELSE <<>>)
    \o (IF failAt = 0 \/ failAt >= Position(LoginSteps, "fill_password")
        THEN <<creds.password>> ELSE <<>>)

\* _login_to_tolino that does not ask has_credentials().
login_without_check(page, creds, failAt) ==
    IF ~page THEN [ret |-> "False", log |-> <<>>, typed |-> <<>>]
    ELSE [ret |-> IF failAt = 0 THEN "True" ELSE "False",
          log |-> Calls(LoginSteps, failAt), typed |-> Typed(creds, failAt)]
\* _login_to_tolino.  has_credentials() is called outside the try block.
_login_to_tolino(page, creds, failAt) ==
    IF ~page THEN [ret |-> "False", log |-> <<>>, typed |-> <<>>]
    ELSE IF has_credentials(creds) = "raise"
         THEN [ret |-> "raise", log |-> <<>>, typed |-> <<>>]
    ELSE IF has_credentials(creds) = "False"
         THEN [ret |-> "False", log |-> <<>>, typed |-> <<>>]
    ELSE [ret |-> IF failAt = 0 THEN "True" ELSE "False",
          log |-> Calls(LoginSteps, failAt), typed |-> Typed(creds, failAt)]

\* The try block of upload_book after the book file was found.
upload_attempt(browser, page, creds, initFail, loginFail, buttonFail, menuFail, chooserFail) ==
    LET b == _init_browser(browser, page, initFail)
        l == _login_to_tolino(b.page, creds, loginFail)
        find == Calls(ButtonSteps, buttonFail)
                \o (IF buttonFail # 0 THEN Calls(MenuSteps, menuFail) ELSE <<>>)
        found == buttonFail = 0 \/ menuFail = 0
    IN IF b.raised \/ ~b.page
       THEN [ret |-> "False", log |-> b.log, browser |-> b.browser,
             page |-> b.page, typed |-> <<>>]
       ELSE IF l.ret # "True"
       THEN [ret |-> "False", log |-> b.log \o l.log, browser |-> b.browser,
             page |-> b.page, typed |-> l.typed]
       ELSE IF ~found
       THEN [ret |-> "False", log |-> b.log \o l.log \o find,
             browser |-> b.browser, page |-> b.page, typed |-> l.typed]
       ELSE [ret |-> IF chooserFail = 0 THEN "True" ELSE "False",
             log |-> b.log \o l.log \o find \o Calls(ChooserSteps, chooserFail),
             browser |-> b.browser, page |-> b.page, typed |-> l.typed]

\* upload_book: no browser work without the book file; otherwise one attempt
\* and _close_browser in the finally clause.
upload_book(browser, page, creds, exists, initFail, loginFail, buttonFail, menuFail, chooserFail, closeOk) ==
    IF ~exists
    THEN [ret |-> "False", log |-> <<>>, browser |-> browser, page |-> page,
          typed |-> <<>>]
    ELSE LET a == upload_attempt(browser, page, creds, initFail, loginFail,
                                 buttonFail, menuFail, chooserFail)
             c == _close_browser(a.browser, a.page, closeOk)
         IN [ret |-> a.ret, log |-> a.log \o c.log, browser |-> c.browser,
             page |-> c.page, typed |-> a.typed]

(***************************************************************************)
(* State.                                                                  *)
(***************************************************************************)
VARIABLES
    _credentials,     \* self._credentials
    _encryption_key,  \* self._encryption_key
    _browser,         \* self._browser is not None
    _page,            \* self._page is not None
    key_file,         \* content of ENCRYPTION_KEY_FILE
    cred_file,        \* content of TOLINO_CREDENTIALS_FILE
    keys_generated,   \* number of keys generate_key() has returned
    external,         \* a file was changed from outside the component
    last              \* the last call: operation, arguments, faults, result

vars == <<_credentials, _encryption_key, _browser, _page, key_file, cred_file,
          keys_generated, external, last>>

NoCall == [op |-> "none", u |-> Missing, p |-> Missing, ret |-> "None",
           kf |-> "ok", cf |-> "ok", exists |-> FALSE, log |-> <<>>,
           typed |-> <<>>]

\* generate_key() returns in this call of _load_encryption_key.
Generates(kfile, kf) == kfile.tag = "absent" /\ kf # "generate_error"

\* The I/O outcomes that make a difference for a key file in this state.
KeyFaultsFor(kfile) ==
    IF kfile.tag = "absent" THEN KeyFaults ELSE {"ok", "open_error"}

\* Reading the credentials file happens only when it exists and a key is set.
ReadFaultsFor(cfile) ==
    IF cfile.tag = "absent" THEN {"ok"} ELSE {"ok", "open_error"}

NextKey == KeyBytes(keys_generated + 1)

\* The module-level instance of a process started on empty storage.
Init ==
    \E kf \in KeyFaults :
        LET r == __init__(AbsentFile, NoCredFile, kf, "ok", KeyBytes(1))
        IN /\ _credentials = r.creds
           /\ _encryption_key = r.key
           /\ _browser = FALSE
           /\ _page = FALSE
           /\ key_file = r.kfile
           /\ cred_file = r.cfile
           /\ keys_generated = IF Generates(AbsentFile, kf) THEN 1 ELSE 0
           /\ external = FALSE
           /\ last = [NoCall EXCEPT !.op = "init", !.kf = kf]

\* A fresh process imports the module: tolino_uploader = TolinoUploader().
Restart ==
    \E kf \in KeyFaultsFor(key_file), cf \in ReadFaultsFor(cred_file) :
        LET r == __init__(key_file, cred_file, kf, cf, NextKey)
        IN /\ Generates(key_file, kf) => keys_generated < NumKeys
           /\ _credentials' = r.creds
           /\ _encryption_key' = r.key
           /\ _browser' = FALSE
           /\ _page' = FALSE
           /\ key_file' = r.kfile
           /\ cred_file' = r.cfile
           /\ keys_generated' = IF Generates(key_file, kf)
                                THEN keys_generated + 1 ELSE keys_generated
           /\ last' = [NoCall EXCEPT !.op = "init", !.kf = kf, !.cf = cf]
           /\ UNCHANGED external

\* save_tolino_credentials(username, password).
SaveCredentials ==
    \E u \in Usernames, p \in Passwords, cf \in CredFaults,
       kf \in (IF Truthy(_encryption_key) THEN {"ok"}
               ELSE KeyFaultsFor(key_file)) :
        LET r == save_credentials(_credentials, _encryption_key, key_file,
                                  cred_file, u, p, kf, cf, NextKey)
            gen == ~Truthy(_encryption_key) /\ Generates(key_file, kf)
        IN /\ gen => keys_generated < NumKeys
           /\ _credentials' = r.creds
           /\ _encryption_key' = r.key
           /\ key_file' = r.kfile
           /\ cred_file' = r.cfile
           /\ keys_generated' = IF gen THEN keys_generated + 1
                                ELSE keys_generated
           /\ last' = [NoCall EXCEPT !.op = "save", !.u = u, !.p = p,
                                     !.ret = r.ret, !.kf = kf, !.cf = cf]
           /\ UNCHANGED <<_browser, _page, external>>

\* has_tolino_credentials().
HasCredentials ==
    /\ last' = [NoCall EXCEPT !.op = "has",
                              !.ret = has_credentials(_credentials)]
    /\ UNCHANGED <<_credentials, _encryption_key, _browser, _page, key_file,
                   cred_file, keys_generated, external>>

\* Outcomes of a group of browser calls that is reached or not.
Outcomes(steps, reached) == IF reached THEN 0..Len(steps) ELSE {0}

\* upload_book_to_tolino(book_path).
UploadBook ==
    \E exists \in BOOLEAN, closeOk \in BOOLEAN :
    \E initFail \in Outcomes(InitSteps, exists) :
    \E loginFail \in Outcomes(LoginSteps, exists /\ initFail = 0
                                /\ has_credentials(_credentials) = "True") :
    \E buttonFail \in Outcomes(ButtonSteps, exists /\ initFail = 0
                                 /\ has_credentials(_credentials) = "True"
                                 /\ loginFail = 0) :
    \E menuFail \in Outcomes(MenuSteps, buttonFail # 0) :
    \E chooserFail \in Outcomes(ChooserSteps,
                                /\ exists /\ initFail = 0 /\ loginFail = 0
                                /\ has_credentials(_credentials) = "True"
                                /\ (buttonFail = 0 \/ menuFail = 0)) :
        LET r == upload_book(_browser, _page, _credentials, exists, initFail,
                             loginFail, buttonFail, menuFail, chooserFail,
                             closeOk)
        IN /\ _browser' = r.browser
           /\ _page' = r.page
           /\ last' = [NoCall EXCEPT !.op = "upload", !.ret = r.ret,
                                     !.exists = exists, !.log = r.log,
                                     !.typed = r.typed]
           /\ UNCHANGED <<_credentials, _encryption_key, key_file, cred_file,
                          keys_generated, external>>

(***************************************************************************)
(* The environment: the two files are ordinary files that anything else on *)
(* the machine can delete or rewrite.                                      *)
(***************************************************************************)
\* Plaintexts somebody else may have encrypted under the key file's key.
ForeignTexts == {<<"null">>, <<"[", "]">>, <<"{", "username", "reader", "}">>,
                 <<"{">>}

Env(kfile, cfile) ==
    /\ key_file' = kfile
    /\ cred_file' = cfile
    /\ external' = TRUE
    /\ last' = [NoCall EXCEPT !.op = "env"]
    /\ UNCHANGED <<_credentials, _encryption_key, _browser, _page,
                   keys_generated>>

DeleteKeyFile == key_file.tag # "absent" /\ Env(AbsentFile, cred_file)

DeleteCredFile == cred_file.tag # "absent" /\ Env(key_file, NoCredFile)

CorruptKeyFile ==
    /\ key_file.tag # "absent"
    /\ \E b \in {EmptyBytes, GarbageBytes} : Env(b, cred_file)

\* One byte of the token is changed.
CorruptCredFile ==
    /\ cred_file.tag = "token"
    /\ Env(key_file, [cred_file EXCEPT !.tag = "tampered"])

ForeignWriteCredFile ==
    /\ FernetAccepts(key_file)
    /\ \E text \in ForeignTexts : Env(key_file, encrypt(key_file, text))

Next ==
    \/ Restart
    \/ SaveCredentials
    \/ HasCredentials
    \/ DeleteKeyFile
    \/ DeleteCredFile
    \/ CorruptKeyFile
    \/ CorruptCredFile
    \/ ForeignWriteCredFile

Spec == Init /\ [][Next]_vars

\* The upload workflow on top of the cache operations that decide what
\* has_credentials() answers.
NextUpload ==
    \/ Restart
    \/ SaveCredentials
    \/ UploadBook
    \/ ForeignWriteCredFile

SpecUpload == Init /\ [][NextUpload]_vars

(***************************************************************************)
(* Properties.                                                             *)
(***************************************************************************)
\* _load_credentials reached its assignment of the parsed value.
LoadSucceeded ==
    /\ cred_file.tag # "absent"
    /\ Truthy(_encryption_key)
    /\ last.cf = "ok"
    /\ FernetAccepts(_encryption_key)
    /\ decrypt(_encryption_key, cred_file).ok
    /\ json_loads(decrypt(_encryption_key, cred_file).text).ok

\* A record with username and password fields.
IsRecord(v) == v.kind = "dict" /\ v.username # Missing /\ v.password # Missing

NonEmptyArgs(call) == call.u # "" /\ call.p # ""

\* C1: a save of a non-empty pair that returned true, followed at once by a
\* fresh process that reads both files without I/O error, leaves the fresh
\* instance's record equal to the saved pair (no file was ever touched from
\* outside the component).
C1_RoundTrip ==
    [][(/\ last.op = "save" /\ last.ret = "True" /\ NonEmptyArgs(last)
        /\ last'.op = "init" /\ last'.kf = "ok" /\ last'.cf = "ok"
        /\ ~external')
       => _credentials' = Dict(last.u, last.p)]_vars

C3_LoadAbsentOnFailure ==
    (/\ last.op = "init"
     /\ ~(/\ LoadSucceeded
          /\ IsRecord(json_loads(decrypt(_encryption_key, cred_file).text).value)))
        => _credentials = EmptyDict

\* C4: with the key file never deleted or changed from outside, the key a
\* fresh process obtains from _load_encryption_key is the key the previous
\* process obtained from it.
C4_KeyStable ==
    [][(/\ last'.op = "init" /\ ~external'
        /\ _encryption_key.tag # "none" /\ _encryption_key'.tag # "none")
       => _encryption_key' = _encryption_key]_vars

\* C5: save_credentials returns true only if a usable key is set, the write
\* did not fail and the credentials file holds the record encrypted under
\* that key; with no usable key or a failed write it returns false.
C5_SaveTrueOnlyIfEveryStep ==
    last.op = "save" =>
        /\ last.ret = "True" =>
              /\ FernetAccepts(_encryption_key)
              /\ last.cf = "ok"
              /\ cred_file = encrypt(_encryption_key,
                                     json_dumps(Dict(last.u, last.p)))
        /\ (~FernetAccepts(_encryption_key) \/ last.cf # "ok")
              => last.ret = "False"

C5_Witness ==
    /\ last.op = "save" /\ last.ret = "True"
    /\ cred_file = encrypt(_encryption_key, json_dumps(Dict(last.u, last.p)))

\* C6: no call of the cache raises.
C6_NoExceptionEscapes == last.ret # "raise"

\* C7: has_credentials() returns true iff the record has a non-empty username
\* and a non-empty password, changes nothing, and its answer is not changed
\* by deleting or corrupting either file.
C7_HasCredentialsPureRead ==
    /\ [](last.op = "has" =>
            (last.ret = "True" <=>
                /\ _credentials.kind = "dict"
                /\ _credentials.username \notin {Missing, ""}
                /\ _credentials.password \notin {Missing, ""}))
    /\ [][last'.op = "has" =>
            UNCHANGED <<_credentials, _encryption_key, key_file, cred_file>>]_vars
    /\ [][last'.op = "env" =>
            has_credentials(_credentials') = has_credentials(_credentials)]_vars

\* has_credentials() answered true although the credentials file is gone or
\* no longer a token.
C7_Witness ==
    /\ last.op = "has" /\ last.ret = "True"
    /\ cred_file.tag \in {"absent", "tampered"}

SuccessfulUploads ==
    {InitSteps \o LoginSteps \o ButtonSteps \o ChooserSteps \o <<"close">>}
    \cup {InitSteps \o LoginSteps \o Calls(ButtonSteps, f) \o MenuSteps
          \o ChooserSteps \o <<"close">> : f \in 1..Len(ButtonSteps)}

InLog(log, steps) == \E i \in 1..Len(log), j \in 1..Len(steps) : log[i] = steps[j]

\* C8: upload_book returns true or false, never raises; true only for an
\* existing book file, credentials present and the full call sequence in
\* order; every browser call is made at most once; no browser call without
\* the book file and no login-page call without credentials.
C8_UploadOnce ==
    last.op = "upload" =>
        /\ last.ret \in {"True", "False"}
        /\ last.ret = "True" =>
              /\ last.exists
              /\ has_credentials(_credentials) = "True"
              /\ last.log \in SuccessfulUploads
        /\ \A i, j \in 1..Len(last.log) : last.log[i] = last.log[j] => i = j
        /\ ~last.exists => last.log = <<>>
        /\ has_credentials(_credentials) # "True"
              => ~InLog(last.log, LoginSteps) /\ last.typed = <<>>

C8_Witness ==
    /\ last.op = "upload" /\ last.ret = "True"
    /\ last.log \in SuccessfulUploads

\* C9: whenever save_credentials returns true (no file ever touched from
\* outside), the key file holds the key the ciphertext was encrypted under.
C9_SavedUnderPersistedKey ==
    (last.op = "save" /\ last.ret = "True" /\ ~external)
        => key_file = _encryption_key

\* C10: after every save the in-memory record is the argument pair, so
\* has_credentials() is true for non-empty arguments whatever save returned;
\* a save that returned false left the credentials file as it was or empty;
\* a login right after the save types the pair of the arguments.
C10_RecordReplacedBeforeWrite ==
    /\ [](last.op = "save" =>
            /\ _credentials = Dict(last.u, last.p)
            /\ NonEmptyArgs(last) => has_credentials(_credentials) = "True")
    /\ [][(last'.op = "save" /\ last'.ret = "False")
            => cred_file' \in {cred_file, EmptyCredFile}]_vars
    /\ [][(last.op = "save" /\ last'.op = "upload" /\ Len(last'.typed) = 2)
            => last'.typed = <<last.u, last.p>>]_vars

\* A login typed a pair that no credentials file holds.
C10_Witness ==
    /\ last.op = "upload"
    /\ last.typed = <<"reader", "Secr3t">>
    /\ cred_file.tag = "absent"

====
